---- MODULE Spec2Model ----
(***************************************************************************)
(* Annotation-driven validation (package avowed / valex).                  *)
(*                                                                         *)
(* Strings are sequences of one-character strings, so that splitting,      *)
(* trimming and integer parsing are computed character by character, as    *)
(* strings.Split, strings.TrimSpace and strconv.Atoi compute them.         *)
(* Errors are records [kind, field, cause, arg]: kind is the head of the   *)
(* message format, field the field name the message quotes ("" when the    *)
(* format has no field name), cause the kind of the wrapped error and arg  *)
(* the parameter key the message quotes.                                   *)
(***************************************************************************)
EXTENDS Integers, Sequences, FiniteSets, TLC

VARIABLES
    impl,       \* walker: which ValidateStruct runs ("tag" = tag.go, "p1" = part_001)
    rec,        \* walker: the record, a sequence of fields in declaration order
    idx,        \* walker: loop index (1-based; Go's i/n + 1)
    pc,         \* walker: "walk" inside the loop, "done" after return
    ret,        \* walker: the returned (ok, err)
    lerr,       \* walker: part_001's local err, declared before the loop
    attempted,  \* walker: indices of the fields handed to a field validator
    prev,       \* walker: what the previous call on the same record returned
    timpl,      \* dispatcher: which implementation resolves the directive
    ttyp,       \* dispatcher: static type of the field
    dname,      \* dispatcher: directive name as written in the annotation
    dparams,    \* dispatcher: parameter tokens as written in the annotation
    tvalue,     \* dispatcher: the field's runtime value
    tout,       \* dispatcher: outcome of the last resolution
    tprev,      \* dispatcher: outcome before the parameters were reordered
    tphase,     \* dispatcher: "idle" | "resolved"
    validator,  \* leaf: the configured validator
    input,      \* leaf: the value last passed to Validate
    result,     \* leaf: the (ok, err) Validate returned
    called,     \* leaf: how many members the last composite call ran
    vvT,        \* wrapper: the type parameter of the ValidatedValue ("int" | "string")
    vvValidator,\* wrapper: its Validator field (NoValidator when nil)
    vvValue,    \* wrapper: its value field
    vvBefore,   \* wrapper: the value field when the last Set was entered
    setArg,     \* wrapper: the argument of the last Set
    setRet,     \* wrapper: the error the last Set returned
    getRet,     \* wrapper: what the last Get returned
    accepted    \* wrapper: the argument of the most recent Set that returned nil

walkVars == <<impl, rec, idx, pc, ret, lerr, attempted, prev>>
tagVars  == <<timpl, ttyp, dname, dparams, tvalue, tout, tprev, tphase>>
leafVars == <<validator, input, result, called>>
valueVars == <<vvT, vvValidator, vvValue, vvBefore, setArg, setRet, getRet, accepted>>
vars     == <<impl, rec, idx, pc, ret, lerr, attempted, prev,
              timpl, ttyp, dname, dparams, tvalue, tout, tprev, tphase,
              validator, input, result, called,
              vvT, vvValidator, vvValue, vvBefore, setArg, setRet, getRet, accepted>>

(***************************************************************************)
(* Bounds                                                                  *)
(***************************************************************************)
MaxFields == 2
MaxParams == 2

(***************************************************************************)
(* Errors                                                                  *)
(***************************************************************************)
NoField == ""
NoArg   == <<>>

Err(kind, field, cause, arg) ==
    [kind |-> kind, field |-> field, cause |-> cause, arg |-> arg]

Nil == Err("nil", NoField, "", NoArg)

\* fmt.Errorf with no field name among its arguments
Errorf(kind) == Err(kind, NoField, "", NoArg)

\* fmt.Errorf quoting a parameter key
ErrorfKey(kind, key) == Err(kind, NoField, "", key)

(***************************************************************************)
(* strings / strconv                                                       *)
(***************************************************************************)
Space == {" ", "\t"}
Digit == {"0", "1", "2", "3", "4", "5", "6", "7", "8", "9"}

DigitVal(c) ==
    CASE c = "0" -> 0 [] c = "1" -> 1 [] c = "2" -> 2 [] c = "3" -> 3
      [] c = "4" -> 4 [] c = "5" -> 5 [] c = "6" -> 6 [] c = "7" -> 7
      [] c = "8" -> 8 [] c = "9" -> 9

\* strings.Split(s, sep) for a one-character separator: always at least one piece
RECURSIVE SplitFrom(_, _, _, _)
SplitFrom(s, sep, i, cur) ==
    IF i > Len(s) THEN <<cur>>
    ELSE IF s[i] = sep THEN <<cur>> \o SplitFrom(s, sep, i + 1, <<>>)
    ELSE SplitFrom(s, sep, i + 1, Append(cur, s[i]))

Split(s, sep) == SplitFrom(s, sep, 1, <<>>)

RECURSIVE TrimLeft(_)
TrimLeft(s) ==
    IF s # <<>> /\ Head(s) \in Space THEN TrimLeft(Tail(s)) ELSE s

RECURSIVE TrimRight(_)
TrimRight(s) ==
    IF s # <<>> /\ s[Len(s)] \in Space THEN TrimRight(SubSeq(s, 1, Len(s) - 1)) ELSE s

\* strings.TrimSpace
TrimSpace(s) == TrimRight(TrimLeft(s))

RECURSIVE DigitsVal(_, _)
DigitsVal(s, acc) ==
    IF s = <<>> THEN acc ELSE DigitsVal(Tail(s), 10 * acc + DigitVal(Head(s)))

\* strconv.Atoi: optional sign, then one or more decimal digits
Atoi(s) ==
    LET signed == s # <<>> /\ Head(s) \in {"+", "-"}
        body   == IF signed THEN Tail(s) ELSE s
        good   == body # <<>> /\ \A i \in 1..Len(body) : body[i] \in Digit
    IN  IF ~good THEN [ok |-> FALSE, val |-> 0]
        ELSE [ok |-> TRUE,
              val |-> IF s[1] = "-" THEN 0 - DigitsVal(body, 0) ELSE DigitsVal(body, 0)]

(***************************************************************************)
(* regexp, for patterns made of literal characters with an optional        *)
(* leading ^ and trailing $; an unbalanced group or class does not compile *)
(***************************************************************************)
RegexBad == {"(", ")", "["}

Compile(p) ==
    IF \E i \in 1..Len(p) : p[i] \in RegexBad
    THEN [ok |-> FALSE, re |-> <<>>]
    ELSE [ok |-> TRUE, re |-> p]

\* (*Regexp).MatchString: the pattern matches somewhere in s
MatchString(re, s) ==
    LET aS  == re # <<>> /\ Head(re) = "^"
        r1  == IF aS THEN Tail(re) ELSE re
        aE  == r1 # <<>> /\ r1[Len(r1)] = "$"
        lit == IF aE THEN SubSeq(r1, 1, Len(r1) - 1) ELSE r1
        n   == Len(lit)
    IN  \E i \in 1..(Len(s) + 1) :
            /\ i + n - 1 <= Len(s)
            /\ SubSeq(s, i, i + n - 1) = lit
            /\ aS => i = 1
            /\ aE => i + n - 1 = Len(s)

(***************************************************************************)
(* Sample strings                                                          *)
(***************************************************************************)
S_empty   == <<>>
S_ab      == <<"a", "b">>
S_abc     == <<"a", "b", "c">>
S_Pluk    == <<"P", "l", "u", "k">>
S_hello6  == <<"h", "e", "l", "l", "o", "6", "#">>
S_long    == <<"a", "b", "c", "d", "e", "f", "g">>
S_url     == <<"/", "a">>
S_mail    == <<"a", "@", "b">>
S_ip4     == <<"1", ".", "2", ".", "3", ".", "4">>
S_ip6     == <<":", ":", "1">>
S_mac     == <<"0", "0", ":", "0", "0", ":", "5", "e", ":", "0", "0", ":", "5", "3", ":", "0", "1">>
S_json    == <<"{", "}">>
S_xml     == <<"<", "a", "/", ">">>
S_xmlOpen == <<"<", "a", ">">>

StringValues ==
    {S_empty, S_ab, S_abc, S_Pluk, S_hello6, S_long, S_url, S_mail,
     S_ip4, S_ip6, S_mac, S_json, S_xml, S_xmlOpen}

IntValues == {-1, 0, 3, 4, 5, 6, 7}

(***************************************************************************)
(* Standard-library parsers, by their result on the sample strings         *)
(***************************************************************************)
\* url.ParseRequestURI: an absolute URI or an absolute path
ParseRequestURI(s) == IF s \in {S_url} THEN Nil ELSE Errorf("parse url")

\* mail.ParseAddress
ParseAddress(s) == IF s \in {S_mail} THEN Nil ELSE Errorf("mail: parse address")

\* net.ParseMAC
ParseMAC(s) == IF s \in {S_mac} THEN Nil ELSE Errorf("address: invalid MAC address")

\* net.ParseIP: "nil", or the family of the parsed address
ParseIP(s) == IF s = S_ip4 THEN "v4" ELSE IF s = S_ip6 THEN "v6" ELSE "nil"

\* json.Valid
JsonValid(s) == s \in {S_json}

\* xml.Decoder.Token until it fails: the tokens read, and the error that ended them
XmlTokens(s) ==
    IF s = S_xml THEN [toks |-> <<"StartElement", "EndElement">>, err |-> "EOF"]
    ELSE IF s = S_xmlOpen THEN [toks |-> <<"StartElement">>, err |-> "SyntaxError"]
    ELSE IF s = S_empty THEN [toks |-> <<>>, err |-> "EOF"]
    ELSE [toks |-> <<"CharData">>, err |-> "EOF"]

(***************************************************************************)
(* Leaf validators (validators.go)                                         *)
(***************************************************************************)
\* a call that returned (ok, err)
Res(ok, err) == [ok |-> ok, err |-> err, st |-> "returned"]

\* a call that did not return: a nil *Regexp was dereferenced
Panicked == [ok |-> FALSE, err |-> Nil, st |-> "panicked"]

\* no call made yet
NoResult == [ok |-> FALSE, err |-> Nil, st |-> "none"]

NoValidator == [kind |-> "none"]

IntRangeValidator_Validate_exclusive(v, val) ==
    IF val <= v.Min \/ val >= v.Max
    THEN Res(FALSE, Errorf("value is out of range"))
    ELSE Res(TRUE, Nil)

IntRangeValidator_Validate(v, val) ==
    IF val < v.Min \/ val > v.Max
    THEN Res(FALSE, Errorf("value is out of range"))
    ELSE Res(TRUE, Nil)

\* cmp.Less, on integers
CmpRangeValidator_Validate(v, val) ==
    IF val < v.Min \/ v.Max < val
    THEN Res(FALSE, Errorf("value is out of range"))
    ELSE Res(TRUE, Nil)

NonNegativeIntValidator_Validate(v, val) ==
    IF val < 0 THEN Res(FALSE, Errorf("value is a negative integer")) ELSE Res(TRUE, Nil)

NonPositiveIntValidator_Validate(v, val) ==
    IF val > 0 THEN Res(FALSE, Errorf("value is a positive integer")) ELSE Res(TRUE, Nil)

\* slip: ok is set whatever the parser said
UrlValidator_Validate_okAlways(v, val) ==
    LET err == ParseRequestURI(val) IN Res(TRUE, err)

UrlValidator_Validate(v, val) ==
    LET err == ParseRequestURI(val) IN Res(err = Nil, err)

EmailValidator_Validate(v, val) ==
    LET err == ParseAddress(val) IN Res(err = Nil, err)

NonEmptyStringValidator_Validate(v, val) ==
    IF val = <<>> THEN Res(FALSE, Errorf("string is empty")) ELSE Res(TRUE, Nil)

MinLengthValidator_Validate_zeroPasses(v, val) ==
    IF Len(val) < v.Size THEN Res(FALSE, Errorf("value exeeds minimum length"))
    ELSE Res(TRUE, Nil)

MinLengthValidator_Validate(v, val) ==
    IF v.Size = 0 THEN Res(FALSE, Errorf("value of parameter size cannot be 0"))
    ELSE IF Len(val) < v.Size THEN Res(FALSE, Errorf("value exeeds minimum length"))
    ELSE Res(TRUE, Nil)

MaxLengthValidator_Validate(v, val) ==
    IF v.Size = 0 THEN Res(FALSE, Errorf("value of parameter size cannot be 0"))
    ELSE IF Len(val) > v.Size THEN Res(FALSE, Errorf("value exeeds maximum length"))
    ELSE Res(TRUE, Nil)

LengthRangeValidator_Validate(v, val) ==
    LET l == Len(val)
    IN  IF v.Min = 0 THEN Res(FALSE, Errorf("min value cannot be 0"))
        ELSE IF v.Max = 0 THEN Res(FALSE, Errorf("max value cannot be 0"))
        ELSE IF l < v.Min \/ l > v.Max THEN Res(FALSE, Errorf("length is not in range"))
        ELSE Res(TRUE, Nil)

\* Pattern is [nil |-> TRUE] or [nil |-> FALSE, re |-> the compiled pattern]
RegexValidator_Validate_fullMatch(v, val) ==
    IF v.Pattern.nil THEN Panicked
    ELSE IF ~(/\ MatchString(v.Pattern.re, val)
              /\ Len(val) = Cardinality({i \in 1..Len(v.Pattern.re) :
                                             v.Pattern.re[i] \notin {"^", "$"}}))
    THEN Res(FALSE, Errorf("value does not match pattern"))
    ELSE Res(TRUE, Nil)

RegexValidator_Validate(v, val) ==
    IF v.Pattern.nil THEN Panicked
    ELSE IF ~MatchString(v.Pattern.re, val)
    THEN Res(FALSE, Errorf("value does not match pattern"))
    ELSE Res(TRUE, Nil)

Letter ==
    {"a", "b", "c", "d", "e", "f", "g", "h", "i", "j", "k", "l", "m",
     "n", "o", "p", "q", "r", "s", "t", "u", "v", "w", "x", "y", "z",
     "A", "B", "C", "D", "E", "F", "G", "H", "I", "J", "K", "L", "M",
     "N", "O", "P", "Q", "R", "S", "T", "U", "V", "W", "X", "Y", "Z"}

\* regexp.MatchString(`^[a-zA-Z0-9]+$`, val): the constant pattern compiles
AlphaNumericValidator_Validate(v, val) ==
    LET matched == val # <<>> /\ \A i \in 1..Len(val) : val[i] \in Letter \cup Digit
    IN  IF ~matched THEN Res(FALSE, Errorf("value is not alphanumeric")) ELSE Res(TRUE, Nil)

MACAddressValidator_Validate(v, val) ==
    IF ParseMAC(val) # Nil THEN Res(FALSE, Errorf("invalid MAC address")) ELSE Res(TRUE, Nil)

IpValidator_Validate(v, val) ==
    IF ParseIP(val) = "nil" THEN Res(FALSE, Errorf("invalid IP address")) ELSE Res(TRUE, Nil)

\* ip.To4() is nil exactly for a non-IPv4 address
IPv4Validator_Validate(v, val) ==
    LET ip == ParseIP(val)
    IN  IF ip = "nil" \/ ip # "v4" THEN Res(FALSE, Errorf("invalid IPv4 address")) ELSE Res(TRUE, Nil)

IPv6Validator_Validate(v, val) ==
    LET ip == ParseIP(val)
    IN  IF ip = "nil" \/ ip = "v4" THEN Res(FALSE, Errorf("invalid IPv6 address")) ELSE Res(TRUE, Nil)

XMLValidator_Validate(v, val) ==
    LET t == XmlTokens(val)
        hasElement == \E i \in 1..Len(t.toks) : t.toks[i] = "StartElement"
    IN  IF t.err # "EOF" THEN Res(FALSE, Errorf("XML parsing error"))
        ELSE IF ~hasElement THEN Res(FALSE, Errorf("XML document must contain at least one element"))
        ELSE Res(TRUE, Nil)

JSONValidator_Validate(v, val) ==
    IF ~JsonValid(val) THEN Res(FALSE, Errorf("invalid JSON")) ELSE Res(TRUE, Nil)

\* Validator[T].Validate: dynamic dispatch on the validator's type
Validate(v, val) ==
    CASE v.kind = "IntRangeValidator"       -> IntRangeValidator_Validate(v, val)
      [] v.kind = "CmpRangeValidator"       -> CmpRangeValidator_Validate(v, val)
      [] v.kind = "NonNegativeIntValidator" -> NonNegativeIntValidator_Validate(v, val)
      [] v.kind = "NonPositiveIntValidator" -> NonPositiveIntValidator_Validate(v, val)
      [] v.kind = "UrlValidator"            -> UrlValidator_Validate(v, val)
      [] v.kind = "EmailValidator"          -> EmailValidator_Validate(v, val)
      [] v.kind = "NonEmptyStringValidator" -> NonEmptyStringValidator_Validate(v, val)
      [] v.kind = "MinLengthValidator"      -> MinLengthValidator_Validate(v, val)
      [] v.kind = "MaxLengthValidator"      -> MaxLengthValidator_Validate(v, val)
      [] v.kind = "LengthRangeValidator"    -> LengthRangeValidator_Validate(v, val)
      [] v.kind = "RegexValidator"          -> RegexValidator_Validate(v, val)
      [] v.kind = "AlphaNumericValidator"   -> AlphaNumericValidator_Validate(v, val)
      [] v.kind = "MACAddressValidator"     -> MACAddressValidator_Validate(v, val)
      [] v.kind = "IpValidator"             -> IpValidator_Validate(v, val)
      [] v.kind = "IPv4Validator"           -> IPv4Validator_Validate(v, val)
      [] v.kind = "IPv6Validator"           -> IPv6Validator_Validate(v, val)
      [] v.kind = "XMLValidator"            -> XMLValidator_Validate(v, val)
      [] v.kind = "JSONValidator"           -> JSONValidator_Validate(v, val)

\* CompositeValidator.Validate: the members in list order, returning at the
\* first one that does not accept; n counts the members that were called
RECURSIVE CompositeLoop(_, _, _)
CompositeLoop(vs, val, i) ==
    IF i > Len(vs) THEN [res |-> Res(TRUE, Nil), n |-> Len(vs)]
    ELSE LET r == Validate(vs[i], val)
         IN  IF r.st = "panicked" THEN [res |-> Panicked, n |-> i]
             ELSE IF ~r.ok THEN [res |-> Res(FALSE, r.err), n |-> i]
             ELSE CompositeLoop(vs, val, i + 1)

CompositeValidator_Validate_onlyFirst(v, val) ==
    IF v.Validators = <<>> THEN CompositeLoop(<<>>, val, 1)
    ELSE CompositeLoop(<<Head(v.Validators)>>, val, 1)

CompositeValidator_Validate(v, val) ==
    CompositeLoop(v.Validators, val, 1)

(***************************************************************************)
(* Directive resolution, tag.go                                            *)
(***************************************************************************)
minKey     == <<"m", "i", "n">>
maxKey     == <<"m", "a", "x">>
sizeKey    == <<"s", "i", "z", "e">>
patternKey == <<"p", "a", "t", "t", "e", "r", "n">>

\* what a field validator hands back: Go's (ok, err), and two observations
\* of the call: ran = v.Validate was invoked, v = the validator it built
Out(ok, err, ran, v) == [ok |-> ok, err |-> err, ran |-> ran, v |-> v]

kv(pair) ==
    LET p == Split(pair, "=")
    IN  IF Len(p) = 2 /\ TrimSpace(p[1]) # <<>> /\ TrimSpace(p[2]) # <<>>
        THEN [k |-> TrimSpace(p[1]), v |-> TrimSpace(p[2]), err |-> Nil]
        ELSE [k |-> <<>>, v |-> <<>>, err |-> Errorf("malformed key value pair")]

\* the loop of rangeFinder: min and max keep their zero value until a pair sets them
RECURSIVE rangeFinderLoop(_, _, _, _)
rangeFinderLoop(params, i, min, max) ==
    IF i > Len(params) THEN [min |-> min, max |-> max, err |-> Nil]
    ELSE LET p == kv(params[i])
             a == Atoi(p.v)
         IN  IF p.err # Nil THEN [min |-> 0, max |-> 0, err |-> p.err]
             ELSE IF p.k = minKey
             THEN IF ~a.ok THEN [min |-> 0, max |-> 0, err |-> ErrorfKey("invalid value", p.k)]
                  ELSE rangeFinderLoop(params, i + 1, a.val, max)
             ELSE IF p.k = maxKey
             THEN IF ~a.ok THEN [min |-> 0, max |-> 0, err |-> ErrorfKey("invalid value", p.k)]
                  ELSE rangeFinderLoop(params, i + 1, min, a.val)
             ELSE rangeFinderLoop(params, i + 1, min, max)

\* slip: the first parameter is taken as min and the second as max
rangeFinder_positional(params) ==
    IF Len(params) # 2
    THEN [min |-> 0, max |-> 0, err |-> Errorf("expected 2 parameters")]
    ELSE LET p1 == kv(params[1])
             p2 == kv(params[2])
             a1 == Atoi(p1.v)
             a2 == Atoi(p2.v)
         IN  IF p1.err # Nil THEN [min |-> 0, max |-> 0, err |-> p1.err]
             ELSE IF ~a1.ok THEN [min |-> 0, max |-> 0, err |-> ErrorfKey("invalid value", p1.k)]
             ELSE IF p2.err # Nil THEN [min |-> 0, max |-> 0, err |-> p2.err]
             ELSE IF ~a2.ok THEN [min |-> 0, max |-> 0, err |-> ErrorfKey("invalid value", p2.k)]
             ELSE [min |-> a1.val, max |-> a2.val, err |-> Nil]

rangeFinder(params) ==
    IF Len(params) # 2
    THEN [min |-> 0, max |-> 0, err |-> Errorf("expected 2 parameters")]
    ELSE rangeFinderLoop(params, 1, 0, 0)

stringParam(key, params) ==
    IF Len(params) # 1 \/ params[1] = <<>>
    THEN [val |-> <<>>, err |-> ErrorfKey("expected 1 parameter", key)]
    ELSE LET p == kv(params[1])
         IN  IF p.err # Nil THEN [val |-> <<>>, err |-> p.err]
             ELSE IF p.k # key THEN [val |-> <<>>, err |-> ErrorfKey("expected parameter", key)]
             ELSE [val |-> p.v, err |-> Nil]

\* slip: the error of strconv.Atoi is dropped and its zero result used
intParam_ignoreErr(key, params) ==
    LET s == stringParam(key, params)
        a == Atoi(s.val)
    IN  IF s.err # Nil THEN [val |-> 0, err |-> s.err]
        ELSE [val |-> a.val, err |-> Nil]

intParam(key, params) ==
    LET s == stringParam(key, params)
        a == Atoi(s.val)
    IN  IF s.err # Nil THEN [val |-> 0, err |-> s.err]
        ELSE IF ~a.ok THEN [val |-> 0, err |-> ErrorfKey("invalid value", key)]
        ELSE [val |-> a.val, err |-> Nil]

patternParam(params) ==
    LET s == stringParam(patternKey, params)
        c == Compile(s.val)
    IN  IF s.err # Nil THEN [pattern |-> [nil |-> TRUE], err |-> s.err]
        ELSE IF ~c.ok THEN [pattern |-> [nil |-> TRUE], err |-> Errorf("error parsing regexp")]
        ELSE [pattern |-> [nil |-> FALSE, re |-> c.re], err |-> Nil]

\* strings.Split never returns an empty slice, so the error branch is dead
vals(tag, name) ==
    LET vs == Split(tag, ",")
    IN  IF Len(vs) = 0
        THEN [vals |-> <<>>, err |-> Err("missing validator", name, "", NoArg)]
        ELSE [vals |-> vs, err |-> Nil]

fieldValidate_noName(name, value, v) ==
    LET r == Validate(v, value)
    IN  IF ~r.ok
        THEN Out(FALSE, r.err, TRUE, v)
        ELSE Out(TRUE, Nil, TRUE, v)

fieldValidate(name, value, v) ==
    LET r == Validate(v, value)
    IN  IF ~r.ok
        THEN Out(FALSE, Err("error validating field", name, r.err.kind, r.err.arg), TRUE, v)
        ELSE Out(TRUE, Nil, TRUE, v)

UnknownValidator(name) == Err("unknown validator", name, "", NoArg)

FoldCase(c) == IF c = "R" THEN "r" ELSE c

\* slip: the directive name is compared without regard to case
intValidators_foldCase(tag, name, value) ==
    LET vs   == vals(tag, name)
        t    == TrimSpace(vs.vals[1])
        id   == [i \in 1..Len(t) |-> FoldCase(t[i])]
        rest == Tail(vs.vals)
        r    == rangeFinder(rest)
    IN  IF vs.err # Nil THEN Out(FALSE, vs.err, FALSE, NoValidator)
        ELSE CASE id = <<"r", "a", "n", "g", "e">> ->
                    IF r.err # Nil THEN Out(FALSE, r.err, FALSE, NoValidator)
                    ELSE fieldValidate(name, value,
                             [kind |-> "IntRangeValidator", Min |-> r.min, Max |-> r.max])
               [] id = <<"p", "o", "s">> ->
                    fieldValidate(name, value, [kind |-> "NonNegativeIntValidator"])
               [] id = <<"n", "e", "g">> ->
                    fieldValidate(name, value, [kind |-> "NonPositiveIntValidator"])
               [] OTHER -> Out(FALSE, UnknownValidator(name), FALSE, NoValidator)

\* slip: a failed parameter lookup returns false with a nil error
intValidators_dropErr(tag, name, value) ==
    LET vs   == vals(tag, name)
        id   == TrimSpace(vs.vals[1])
        rest == Tail(vs.vals)
        r    == rangeFinder(rest)
    IN  IF vs.err # Nil THEN Out(FALSE, vs.err, FALSE, NoValidator)
        ELSE CASE id = <<"r", "a", "n", "g", "e">> ->
                    IF r.err # Nil THEN Out(FALSE, Nil, FALSE, NoValidator)
                    ELSE fieldValidate(name, value,
                             [kind |-> "IntRangeValidator", Min |-> r.min, Max |-> r.max])
               [] id = <<"p", "o", "s">> ->
                    fieldValidate(name, value, [kind |-> "NonNegativeIntValidator"])
               [] id = <<"n", "e", "g">> ->
                    fieldValidate(name, value, [kind |-> "NonPositiveIntValidator"])
               [] OTHER -> Out(FALSE, UnknownValidator(name), FALSE, NoValidator)

intValidators_swapSign(tag, name, value) ==
    LET vs   == vals(tag, name)
        id   == TrimSpace(vs.vals[1])
        rest == Tail(vs.vals)
        r    == rangeFinder(rest)
    IN  IF vs.err # Nil THEN Out(FALSE, vs.err, FALSE, NoValidator)
        ELSE CASE id = <<"r", "a", "n", "g", "e">> ->
                    IF r.err # Nil THEN Out(FALSE, r.err, FALSE, NoValidator)
                    ELSE fieldValidate(name, value,
                             [kind |-> "IntRangeValidator", Min |-> r.min, Max |-> r.max])
               [] id = <<"p", "o", "s">> ->
                    fieldValidate(name, value, [kind |-> "NonPositiveIntValidator"])
               [] id = <<"n", "e", "g">> ->
                    fieldValidate(name, value, [kind |-> "NonNegativeIntValidator"])
               [] OTHER -> Out(FALSE, UnknownValidator(name), FALSE, NoValidator)

intValidators(tag, name, value) ==
    LET vs   == vals(tag, name)
        id   == TrimSpace(vs.vals[1])
        rest == Tail(vs.vals)
        r    == rangeFinder(rest)
    IN  IF vs.err # Nil THEN Out(FALSE, vs.err, FALSE, NoValidator)
        ELSE CASE id = <<"r", "a", "n", "g", "e">> ->
                    IF r.err # Nil THEN Out(FALSE, r.err, FALSE, NoValidator)
                    ELSE fieldValidate(name, value,
                             [kind |-> "IntRangeValidator", Min |-> r.min, Max |-> r.max])
               [] id = <<"p", "o", "s">> ->
                    fieldValidate(name, value, [kind |-> "NonNegativeIntValidator"])
               [] id = <<"n", "e", "g">> ->
                    fieldValidate(name, value, [kind |-> "NonPositiveIntValidator"])
               [] OTHER -> Out(FALSE, UnknownValidator(name), FALSE, NoValidator)

stringValidators(tag, name, value) ==
    LET vs   == vals(tag, name)
        id   == TrimSpace(vs.vals[1])
        rest == Tail(vs.vals)
        r    == rangeFinder(rest)
        sz   == intParam(sizeKey, rest)
        pt   == patternParam(rest)
    IN  IF vs.err # Nil THEN Out(FALSE, vs.err, FALSE, NoValidator)
        ELSE CASE id = <<"l", "e", "n", "g", "t", "h">> ->
                    IF r.err # Nil THEN Out(FALSE, r.err, FALSE, NoValidator)
                    ELSE fieldValidate(name, value,
                             [kind |-> "LengthRangeValidator", Min |-> r.min, Max |-> r.max])
               [] id = <<"m", "i", "n">> ->
                    IF sz.err # Nil THEN Out(FALSE, sz.err, FALSE, NoValidator)
                    ELSE fieldValidate(name, value, [kind |-> "MinLengthValidator", Size |-> sz.val])
               [] id = <<"m", "a", "x">> ->
                    IF sz.err # Nil THEN Out(FALSE, sz.err, FALSE, NoValidator)
                    ELSE fieldValidate(name, value, [kind |-> "MaxLengthValidator", Size |-> sz.val])
               [] id = <<"r", "e", "g", "e", "x">> ->
                    IF pt.err # Nil THEN Out(FALSE, pt.err, FALSE, NoValidator)
                    ELSE fieldValidate(name, value, [kind |-> "RegexValidator", Pattern |-> pt.pattern])
               [] id = <<"a", "l", "p", "h", "a", "n", "u", "m">> ->
                    fieldValidate(name, value, [kind |-> "AlphaNumericValidator"])
               [] id = <<"i", "p", "v", "4">> ->
                    fieldValidate(name, value, [kind |-> "IPv4Validator"])
               [] id = <<"i", "p", "v", "6">> ->
                    fieldValidate(name, value, [kind |-> "IPv6Validator"])
               [] id = <<"m", "a", "c">> ->
                    fieldValidate(name, value, [kind |-> "MACAddressValidator"])
               [] id = <<"j", "s", "o", "n">> ->
                    fieldValidate(name, value, [kind |-> "JSONValidator"])
               [] id = <<"x", "m", "l">> ->
                    fieldValidate(name, value, [kind |-> "XMLValidator"])
               [] id = <<"u", "r", "l">> ->
                    fieldValidate(name, value, [kind |-> "UrlValidator"])
               [] id = <<"e", "m", "a", "i", "l">> ->
                    fieldValidate(name, value, [kind |-> "EmailValidator"])
               [] id = <<"!", "e", "m", "p", "t", "y">> ->
                    fieldValidate(name, value, [kind |-> "NonEmptyStringValidator"])
               [] OTHER -> Out(FALSE, UnknownValidator(name), FALSE, NoValidator)

(***************************************************************************)
(* Directive resolution, the ValidateStruct of unnamed/part_001            *)
(* (lines 41-235).  Its field validators return only an error; a Go map    *)
(* is a function on its key set, and ranging over a map visits the keys in *)
(* an unspecified order, so findIntPairs yields a set of possible results. *)
(***************************************************************************)
P1Out(err, ran, v) == [err |-> err, ran |-> ran, v |-> v]

EmptyMap == [k \in {} |-> <<>>]

P1_kv(pair) ==
    LET split == Split(pair, "=")
    IN  IF Len(split) = 2 /\ TrimSpace(split[1]) # <<>> /\ TrimSpace(split[2]) # <<>>
        THEN [k |-> TrimSpace(split[1]), v |-> TrimSpace(split[2]), err |-> Nil]
        ELSE [k |-> <<>>, v |-> <<>>, err |-> Errorf("malformed key value pair")]

RECURSIVE P1_extractPairsLoop(_, _, _)
P1_extractPairsLoop(args, i, pairs) ==
    IF i > Len(args) THEN [pairs |-> pairs, err |-> Nil]
    ELSE LET p == P1_kv(args[i])
         IN  IF p.err # Nil THEN [pairs |-> EmptyMap, err |-> p.err]
             ELSE P1_extractPairsLoop(args, i + 1,
                      [k \in DOMAIN pairs \cup {p.k} |-> IF k = p.k THEN p.v ELSE pairs[k]])

P1_extractPairs(args) == P1_extractPairsLoop(args, 1, EmptyMap)

P1_findStringPairs(keys, args) ==
    LET e == P1_extractPairs(args)
    IN  IF e.err # Nil THEN [pairs |-> EmptyMap, err |-> e.err]
        ELSE IF Len(keys) # Cardinality(DOMAIN e.pairs)
        THEN [pairs |-> EmptyMap, err |-> Errorf("expected n parameter(s)")]
        ELSE IF \E i \in 1..Len(keys) : keys[i] \notin DOMAIN e.pairs
        THEN [pairs |-> EmptyMap, err |-> Errorf("missing required parameter")]
        ELSE [pairs |-> e.pairs, err |-> Nil]

P1_findIntPairs(keys, params) ==
    LET s   == P1_findStringPairs(keys, params)
        bad == {k \in DOMAIN s.pairs : ~Atoi(s.pairs[k]).ok}
    IN  IF s.err # Nil THEN {[pairs |-> EmptyMap, err |-> s.err]}
        ELSE IF bad # {}
        THEN {[pairs |-> EmptyMap, err |-> ErrorfKey("invalid value", k)] : k \in bad}
        ELSE {[pairs |-> [k \in DOMAIN s.pairs |-> Atoi(s.pairs[k]).val], err |-> Nil]}

P1_fieldValidate(value, v) ==
    LET r == Validate(v, value)
    IN  IF ~r.ok THEN P1Out(r.err, TRUE, v) ELSE P1Out(Nil, TRUE, v)

P1_UnknownValidator == Errorf("unknown validator")

P1_validateIntField(directive, args, val) ==
    CASE directive = <<"r", "a", "n", "g", "e">> ->
            { IF fp.err # Nil THEN P1Out(fp.err, FALSE, NoValidator)
              ELSE P1_fieldValidate(val, [kind |-> "IntRangeValidator",
                                          Min |-> fp.pairs[minKey], Max |-> fp.pairs[maxKey]])
              : fp \in P1_findIntPairs(<<minKey, maxKey>>, args) }
      [] directive = <<"p", "o", "s">> ->
            {P1_fieldValidate(val, [kind |-> "NonNegativeIntValidator"])}
      [] directive = <<"n", "e", "g">> ->
            {P1_fieldValidate(val, [kind |-> "NonPositiveIntValidator"])}
      [] OTHER -> {P1Out(P1_UnknownValidator, FALSE, NoValidator)}

P1_validateStrField(directive, args, val) ==
    LET sp == P1_findStringPairs(<<patternKey>>, args)
        c  == Compile(sp.pairs[patternKey])
    IN
    CASE directive = <<"l", "e", "n", "g", "t", "h">> ->
            { IF fp.err # Nil THEN P1Out(fp.err, FALSE, NoValidator)
              ELSE P1_fieldValidate(val, [kind |-> "LengthRangeValidator",
                                          Min |-> fp.pairs[minKey], Max |-> fp.pairs[maxKey]])
              : fp \in P1_findIntPairs(<<minKey, maxKey>>, args) }
      [] directive = <<"m", "i", "n">> ->
            { IF fp.err # Nil THEN P1Out(fp.err, FALSE, NoValidator)
              ELSE P1_fieldValidate(val, [kind |-> "MinLengthValidator", Size |-> fp.pairs[sizeKey]])
              : fp \in P1_findIntPairs(<<sizeKey>>, args) }
      [] directive = <<"m", "a", "x">> ->
            { IF fp.err # Nil THEN P1Out(fp.err, FALSE, NoValidator)
              ELSE P1_fieldValidate(val, [kind |-> "MinLengthValidator", Size |-> fp.pairs[sizeKey]])
              : fp \in P1_findIntPairs(<<sizeKey>>, args) }
      [] directive = <<"r", "e", "g", "e", "x">> ->
            { IF sp.err # Nil THEN P1Out(sp.err, FALSE, NoValidator)
              ELSE IF ~c.ok THEN P1Out(Errorf("error parsing regexp"), FALSE, NoValidator)
              ELSE P1_fieldValidate(val, [kind |-> "RegexValidator",
                                          Pattern |-> [nil |-> FALSE, re |-> c.re]]) }
      [] directive = <<"a", "l", "p", "h", "a", "n", "u", "m">> ->
            {P1_fieldValidate(val, [kind |-> "AlphaNumericValidator"])}
      [] directive = <<"i", "p", "v", "4">> ->
            {P1_fieldValidate(val, [kind |-> "IPv4Validator"])}
      [] directive = <<"i", "p", "v", "6">> ->
            {P1_fieldValidate(val, [kind |-> "IPv6Validator"])}
      [] directive = <<"m", "a", "c">> ->
            {P1_fieldValidate(val, [kind |-> "MACAddressValidator"])}
      [] directive = <<"j", "s", "o", "n">> ->
            {P1_fieldValidate(val, [kind |-> "JSONValidator"])}
      [] directive = <<"x", "m", "l">> ->
            {P1_fieldValidate(val, [kind |-> "XMLValidator"])}
      [] directive = <<"u", "r", "l">> ->
            {P1_fieldValidate(val, [kind |-> "UrlValidator"])}
      [] directive = <<"e", "m", "a", "i", "l">> ->
            {P1_fieldValidate(val, [kind |-> "EmailValidator"])}
      [] directive = <<"!", "e", "m", "p", "t", "y">> ->
            {P1_fieldValidate(val, [kind |-> "NonEmptyStringValidator"])}
      [] OTHER -> {P1Out(P1_UnknownValidator, FALSE, NoValidator)}

P1_splitTag(tag) ==
    LET args == Split(tag, ",")
    IN  [id |-> TrimSpace(args[1]), args |-> Tail(args)]

\* fmt.Errorf("error validating field %q: %v", field.Name, err)
P1_wrap(name, err) == Err("error validating field", name, err.kind, err.arg)

(***************************************************************************)
(* Annotations: a directive name and parameter tokens, joined by commas    *)
(***************************************************************************)
N_range    == <<"r", "a", "n", "g", "e">>
N_length   == <<"l", "e", "n", "g", "t", "h">>
N_min      == <<"m", "i", "n">>
N_max      == <<"m", "a", "x">>
N_regex    == <<"r", "e", "g", "e", "x">>
N_pos      == <<"p", "o", "s">>
N_neg      == <<"n", "e", "g">>
N_alphanum == <<"a", "l", "p", "h", "a", "n", "u", "m">>
N_json     == <<"j", "s", "o", "n">>
N_Range    == <<"R", "a", "n", "g", "e">>
N_spaced   == <<" ", "r", "a", "n", "g", "e", " ">>
N_lengthrange == <<"l", "e", "n", "g", "t", "h", "r", "a", "n", "g", "e">>
N_ipv4     == <<"i", "p", "v", "4">>
N_ipv6     == <<"i", "p", "v", "6">>
N_mac      == <<"m", "a", "c">>
N_xml      == <<"x", "m", "l">>
N_url      == <<"u", "r", "l">>
N_email    == <<"e", "m", "a", "i", "l">>
N_nonempty == <<"!", "e", "m", "p", "t", "y">>

\* names that no switch of the field validators lists
N_nonemptyWord == <<"n", "o", "n", "e", "m", "p", "t", "y">>
N_minlength    == <<"m", "i", "n", "l", "e", "n", "g", "t", "h">>
N_maxlength    == <<"m", "a", "x", "l", "e", "n", "g", "t", "h">>
N_alphanumeric == <<"a", "l", "p", "h", "a", "n", "u", "m", "e", "r", "i", "c">>
N_ip           == <<"i", "p">>
N_nonnegative  == <<"n", "o", "n", "n", "e", "g", "a", "t", "i", "v", "e">>
N_nonpositive  == <<"n", "o", "n", "p", "o", "s", "i", "t", "i", "v", "e">>

DirectiveNames ==
    {N_range, N_length, N_min, N_max, N_regex, N_pos, N_neg, N_alphanum, N_json,
     N_Range, N_spaced, N_lengthrange, <<>>}

K_foo == <<"f", "o", "o">>

\* a token written key=val, or a token written as raw text
KV(key, val) == [form |-> "kv", key |-> key, val |-> val]
Raw(text)    == [form |-> "raw", key |-> text, val |-> <<>>]

Tokens ==
    {KV(minKey, <<"4">>), KV(minKey, <<"-", "1">>), KV(minKey, <<"x">>),
     KV(maxKey, <<"6">>), KV(maxKey, <<"4">>),
     KV(sizeKey, <<"4">>), KV(sizeKey, <<"0">>), KV(sizeKey, <<"x">>),
     KV(K_foo, <<"5">>),
     KV(patternKey, <<"a">>), KV(patternKey, <<"(">>), KV(patternKey, <<"a", "=", "b">>),
     KV(<<" ", "m", "i", "n", " ">>, <<" ", "4", " ">>),
     Raw(<<>>), Raw(minKey)}

TokText(t) == IF t.form = "kv" THEN t.key \o <<"=">> \o t.val ELSE t.key

RECURSIVE JoinParams(_)
JoinParams(ps) ==
    IF ps = <<>> THEN <<>> ELSE <<",">> \o TokText(Head(ps)) \o JoinParams(Tail(ps))

\* the annotation text: directiveName[,token]*
TagText(name, ps) == name \o JoinParams(ps)

ParamLists == UNION {[1..n -> Tokens] : n \in 0..MaxParams}

Reverse(s) == [i \in 1..Len(s) |-> s[Len(s) + 1 - i]]

TagInts    == {0, 5, 7}
TagStrings == {S_empty, S_ab, S_Pluk, S_long}

(***************************************************************************)
(* The dispatcher on one field: the verdict ValidateStruct reaches for a   *)
(* field of static type typ, annotation tag and value                      *)
(***************************************************************************)
NoOut == Out(FALSE, Errorf("no outcome"), FALSE, NoValidator)

TagFieldName(typ) == IF typ = "int" THEN "Number" ELSE "Word"

\* tag.go:20-28
FieldVerdict(typ, tag, name, value) ==
    IF typ = "string" THEN stringValidators(tag, name, value)
    ELSE intValidators(tag, name, value)

\* part_001:152-163
P1_FieldVerdicts(typ, tag, name, value) ==
    LET st == P1_splitTag(tag)
        rs == IF typ = "string" THEN P1_validateStrField(st.id, st.args, value)
              ELSE P1_validateIntField(st.id, st.args, value)
    IN  { IF r.err # Nil THEN Out(FALSE, P1_wrap(name, r.err), r.ran, r.v)
          ELSE Out(TRUE, Nil, r.ran, r.v) : r \in rs }

\* ValidateStruct has not returned yet
NoReturn == [ok |-> FALSE, err |-> Errorf("not returned")]

WalkIdle ==
    /\ impl = "tag" /\ rec = <<>> /\ idx = 1 /\ pc = "idle"
    /\ ret = NoReturn /\ lerr = Nil /\ attempted = {} /\ prev = NoReturn

TagIdle ==
    /\ timpl = "tag" /\ ttyp = "int" /\ dname = <<>> /\ dparams = <<>>
    /\ tvalue = 0 /\ tout = NoOut /\ tprev = NoOut /\ tphase = "off"

LeafIdle ==
    /\ validator = NoValidator /\ input = 0 /\ result = NoResult /\ called = 0

\* Set has not returned yet; Get has not returned yet; no Set has succeeded
NoSet == [st |-> "none", err |-> Nil]
NoGet == [st |-> "none"]
NoneAccepted == [set |-> FALSE]

ValueIdle ==
    /\ vvT = "int" /\ vvValidator = NoValidator /\ vvValue = 0 /\ vvBefore = 0
    /\ setArg = 0 /\ setRet = NoSet /\ getRet = NoGet /\ accepted = NoneAccepted

\* the directives without parameters, the names nothing registers, and a
\* blank name, each with a few parameter lists and every sample value
N_blank == <<" ">>

VocabularyNames ==
    {N_pos, N_neg, N_alphanum, N_json, N_ipv4, N_ipv6, N_mac, N_xml, N_url,
     N_email, N_nonempty, N_nonemptyWord, N_minlength, N_maxlength,
     N_alphanumeric, N_ip, N_nonnegative, N_nonpositive, N_blank}

VocabularyParams ==
    {<<>>, <<KV(sizeKey, <<"4">>)>>, <<KV(minKey, <<"4">>), KV(maxKey, <<"6">>)>>,
     <<Raw(minKey)>>, <<Raw(<<>>)>>}

InitTag ==
    /\ timpl \in {"tag", "p1"}
    /\ ttyp \in {"int", "string"}
    /\ \/ /\ dname \in DirectiveNames
          /\ dparams \in ParamLists
          /\ tvalue \in IF ttyp = "int" THEN TagInts ELSE TagStrings
       \/ /\ dname \in VocabularyNames
          /\ dparams \in VocabularyParams
          /\ tvalue \in IF ttyp = "int" THEN TagInts ELSE StringValues
    /\ tout = NoOut /\ tprev = NoOut /\ tphase = "idle"
    /\ WalkIdle /\ LeafIdle /\ ValueIdle

\* the field's annotation is resolved and its value validated (tag.go)
Resolve ==
    /\ tphase = "idle" /\ timpl = "tag"
    /\ tout' = FieldVerdict(ttyp, TagText(dname, dparams), TagFieldName(ttyp), tvalue)
    /\ tphase' = "resolved"
    /\ UNCHANGED <<timpl, ttyp, dname, dparams, tvalue, tprev>>
    /\ UNCHANGED walkVars /\ UNCHANGED leafVars /\ UNCHANGED valueVars

\* the same, by part_001's field validators
P1_Resolve ==
    /\ tphase = "idle" /\ timpl = "p1"
    /\ tout' \in P1_FieldVerdicts(ttyp, TagText(dname, dparams), TagFieldName(ttyp), tvalue)
    /\ tphase' = "resolved"
    /\ UNCHANGED <<timpl, ttyp, dname, dparams, tvalue, tprev>>
    /\ UNCHANGED walkVars /\ UNCHANGED leafVars /\ UNCHANGED valueVars

\* the same field is declared again with its two parameters in the opposite order
Reorder ==
    /\ tphase = "resolved" /\ tprev = NoOut /\ Len(dparams) = 2
    /\ dparams' = Reverse(dparams)
    /\ tprev' = tout
    /\ tout' = NoOut
    /\ tphase' = "idle"
    /\ UNCHANGED <<timpl, ttyp, dname, tvalue>>
    /\ UNCHANGED walkVars /\ UNCHANGED leafVars /\ UNCHANGED valueVars

NextTag == Resolve \/ P1_Resolve \/ Reorder

SpecTag == InitTag /\ [][NextTag]_vars

(***************************************************************************)
(* The struct walker                                                       *)
(***************************************************************************)
FieldNames == <<"Number", "Word", "Must", "Addr", "Body", "Extra">>

\* reflect: the name of the i-th declared field
FieldName(i) == IF i <= Len(FieldNames) THEN FieldNames[i] ELSE "F" \o ToString(i)

T_rangeOK      == TagText(N_range, <<KV(minKey, <<"4">>), KV(maxKey, <<"6">>)>>)
T_rangeMissing == TagText(N_range, <<KV(minKey, <<"4">>)>>)
T_rangeBadInt  == TagText(N_range, <<KV(minKey, <<"x">>), KV(maxKey, <<"6">>)>>)
T_Range        == TagText(N_Range, <<KV(minKey, <<"4">>), KV(maxKey, <<"6">>)>>)
T_lengthOK     == TagText(N_length, <<KV(minKey, <<"4">>), KV(maxKey, <<"6">>)>>)
T_regexBad     == TagText(N_regex, <<KV(patternKey, <<"(">>)>>)
T_minMalformed == TagText(N_min, <<Raw(sizeKey)>>)
T_rangeBothBad == TagText(N_range, <<KV(minKey, <<"x">>), KV(maxKey, <<"y">>)>>)
T_lengthrange  == TagText(N_lengthrange, <<KV(minKey, <<"4">>), KV(maxKey, <<"6">>)>>)

\* a field: whether it carries the val annotation, its runtime type, the
\* annotation text and its value
\* (ival holds the value of an int or float64 field, sval that of a string field)
Field(tagged, typ, tag, value) ==
    [tagged |-> tagged, typ |-> typ, tag |-> tag,
     ival |-> IF typ = "string" THEN 0 ELSE value,
     sval |-> IF typ = "string" THEN value ELSE <<>>]

\* val.FieldByName(field.Name).Interface()
FieldValue(f) == IF f.typ = "string" THEN f.sval ELSE f.ival

FieldPool ==
    {Field(TRUE, "int", t, v) : t \in {T_rangeOK, T_rangeMissing, T_rangeBadInt, T_Range},
                                 v \in {5, 7}}
    \cup {Field(TRUE, "string", t, v) : t \in {T_lengthOK, T_regexBad, T_minMalformed, T_rangeOK},
                                        v \in {S_Pluk, S_ab}}
    \cup {Field(TRUE, "int", T_rangeBothBad, 5), Field(TRUE, "string", T_lengthrange, S_Pluk)}
    \cup {Field(TRUE, "float64", T_rangeOK, 2)}
    \cup {Field(FALSE, "int", <<>>, 7), Field(FALSE, "string", <<>>, S_ab),
          Field(FALSE, "float64", <<>>, 2)}

Records == UNION {[1..n -> FieldPool] : n \in 0..MaxFields}

Init ==
    /\ impl \in {"tag", "p1"}
    /\ rec \in Records
    /\ idx = 1
    /\ pc = "walk"
    /\ ret = NoReturn
    /\ lerr = Nil
    /\ attempted = {}
    /\ prev = NoReturn
    /\ TagIdle /\ LeafIdle /\ ValueIdle

\* slip: the type switch runs whether or not the annotation was found
ShouldValidate_ignoreTag(f) == f.typ \in {"string", "int"}

\* field.Tag.Lookup(tagID) succeeded and the type switch has a case for the value
ShouldValidate(f) == f.tagged /\ f.typ \in {"string", "int"}

\* slip: a failing field is recorded but the loop goes on
ValidateStruct_field_noStop ==
    /\ impl = "tag" /\ pc = "walk" /\ idx <= Len(rec)
    /\ LET f   == rec[idx]
           out == FieldVerdict(f.typ, f.tag, FieldName(idx), FieldValue(f))
       IN  IF f.tagged /\ f.typ \in {"string", "int"}
           THEN /\ attempted' = attempted \cup {idx}
                /\ idx' = idx + 1
                /\ pc' = pc
                /\ ret' = IF ~out.ok THEN [ok |-> FALSE, err |-> out.err] ELSE ret
           ELSE /\ idx' = idx + 1
                /\ UNCHANGED <<ret, pc, attempted>>
    /\ UNCHANGED <<impl, rec, lerr, prev>>
    /\ UNCHANGED tagVars /\ UNCHANGED leafVars /\ UNCHANGED valueVars

\* the type switch with a default case that rejects the field
ValidateStruct_field_rejectUnsupported ==
    /\ impl = "tag" /\ pc = "walk" /\ idx <= Len(rec)
    /\ LET f   == rec[idx]
           out == FieldVerdict(f.typ, f.tag, FieldName(idx), FieldValue(f))
       IN  IF f.tagged /\ f.typ \in {"string", "int"}
           THEN /\ attempted' = attempted \cup {idx}
                /\ IF ~out.ok
                   THEN /\ ret' = [ok |-> FALSE, err |-> out.err]
                        /\ pc' = "done"
                        /\ idx' = idx
                   ELSE /\ idx' = idx + 1
                        /\ UNCHANGED <<ret, pc>>
           ELSE IF f.tagged
           THEN /\ ret' = [ok |-> FALSE,
                           err |-> Err("unsupported field type", FieldName(idx), "", NoArg)]
                /\ pc' = "done"
                /\ UNCHANGED <<idx, attempted>>
           ELSE /\ idx' = idx + 1
                /\ UNCHANGED <<ret, pc, attempted>>
    /\ UNCHANGED <<impl, rec, lerr, prev>>
    /\ UNCHANGED tagVars /\ UNCHANGED leafVars /\ UNCHANGED valueVars

\* tag.go ValidateStruct, one iteration of the loop over the fields
ValidateStruct_field ==
    /\ impl = "tag" /\ pc = "walk" /\ idx <= Len(rec)
    /\ LET f   == rec[idx]
           out == FieldVerdict(f.typ, f.tag, FieldName(idx), FieldValue(f))
       IN  IF ShouldValidate(f)
           THEN /\ attempted' = attempted \cup {idx}
                /\ IF ~out.ok
                   THEN /\ ret' = [ok |-> FALSE, err |-> out.err]
                        /\ pc' = "done"
                        /\ idx' = idx
                   ELSE /\ idx' = idx + 1
                        /\ UNCHANGED <<ret, pc>>
           ELSE /\ idx' = idx + 1
                /\ UNCHANGED <<ret, pc, attempted>>
    /\ UNCHANGED <<impl, rec, lerr, prev>>
    /\ UNCHANGED tagVars /\ UNCHANGED leafVars /\ UNCHANGED valueVars

\* tag.go ValidateStruct, after the last field
ValidateStruct_return ==
    /\ impl = "tag" /\ pc = "walk" /\ idx > Len(rec)
    /\ ret' = [ok |-> TRUE, err |-> Nil]
    /\ pc' = "done"
    /\ UNCHANGED <<impl, rec, idx, lerr, attempted, prev>>
    /\ UNCHANGED tagVars /\ UNCHANGED leafVars /\ UNCHANGED valueVars

\* part_001 ValidateStruct, one iteration of the loop over the fields
P1_ValidateStruct_field ==
    /\ impl = "p1" /\ pc = "walk" /\ idx <= Len(rec)
    /\ LET f    == rec[idx]
           st   == P1_splitTag(f.tag)
           errs == IF f.tagged /\ f.typ = "string"
                   THEN {r.err : r \in P1_validateStrField(st.id, st.args, f.sval)}
                   ELSE IF f.tagged /\ f.typ = "int"
                   THEN {r.err : r \in P1_validateIntField(st.id, st.args, f.ival)}
                   ELSE {lerr}
       IN  /\ attempted' = IF f.tagged /\ f.typ \in {"string", "int"}
                           THEN attempted \cup {idx} ELSE attempted
           /\ \E e \in errs :
                /\ lerr' = e
                /\ IF e # Nil
                   THEN /\ ret' = [ok |-> FALSE, err |-> P1_wrap(FieldName(idx), e)]
                        /\ pc' = "done"
                        /\ idx' = idx
                   ELSE /\ idx' = idx + 1
                        /\ UNCHANGED <<ret, pc>>
    /\ UNCHANGED <<impl, rec, prev>>
    /\ UNCHANGED tagVars /\ UNCHANGED leafVars /\ UNCHANGED valueVars

\* part_001 ValidateStruct, after the last field
P1_ValidateStruct_return ==
    /\ impl = "p1" /\ pc = "walk" /\ idx > Len(rec)
    /\ ret' = [ok |-> TRUE, err |-> Nil]
    /\ pc' = "done"
    /\ UNCHANGED <<impl, rec, idx, lerr, attempted, prev>>
    /\ UNCHANGED tagVars /\ UNCHANGED leafVars /\ UNCHANGED valueVars

\* the caller validates the same record a second time
ValidateStruct_again ==
    /\ pc = "done" /\ prev = NoReturn
    /\ prev' = ret
    /\ ret' = NoReturn
    /\ idx' = 1
    /\ pc' = "walk"
    /\ lerr' = Nil
    /\ attempted' = {}
    /\ UNCHANGED <<impl, rec>>
    /\ UNCHANGED tagVars /\ UNCHANGED leafVars /\ UNCHANGED valueVars

Next ==
    \/ ValidateStruct_field
    \/ ValidateStruct_return
    \/ P1_ValidateStruct_field
    \/ P1_ValidateStruct_return
    \/ ValidateStruct_again

Spec == Init /\ [][Next]_vars

(***************************************************************************)
(* The ValidateStruct of unnamed/part_002: only string fields are          *)
(* validated, the alphanumeric directive is spelled alphnum, and kv does   *)
(* not ask for a non-empty key and value.                                  *)
(***************************************************************************)
P2_kv(pair) ==
    LET p == Split(pair, "=")
    IN  IF Len(p) = 2
        THEN [k |-> TrimSpace(p[1]), v |-> TrimSpace(p[2]), err |-> Nil]
        ELSE [k |-> <<>>, v |-> <<>>, err |-> Errorf("malformed key value pair")]

RECURSIVE P2_rangeFinderLoop(_, _, _, _)
P2_rangeFinderLoop(params, i, min, max) ==
    IF i > Len(params) THEN [min |-> min, max |-> max, err |-> Nil]
    ELSE LET p == P2_kv(params[i])
             a == Atoi(p.v)
         IN  IF p.err # Nil THEN [min |-> 0, max |-> 0, err |-> p.err]
             ELSE IF p.k = minKey
             THEN IF ~a.ok THEN [min |-> 0, max |-> 0, err |-> ErrorfKey("invalid value", p.k)]
                  ELSE P2_rangeFinderLoop(params, i + 1, a.val, max)
             ELSE IF p.k = maxKey
             THEN IF ~a.ok THEN [min |-> 0, max |-> 0, err |-> ErrorfKey("invalid value", p.k)]
                  ELSE P2_rangeFinderLoop(params, i + 1, min, a.val)
             ELSE P2_rangeFinderLoop(params, i + 1, min, max)

P2_rangeFinder(params) ==
    IF Len(params) # 2
    THEN [min |-> 0, max |-> 0, err |-> Errorf("expected 2 parameters")]
    ELSE P2_rangeFinderLoop(params, 1, 0, 0)

P2_patternFinder(params) ==
    IF Len(params) # 1
    THEN [pattern |-> [nil |-> TRUE], err |-> ErrorfKey("expected 1 parameter", patternKey)]
    ELSE LET p == P2_kv(params[1])
             c == Compile(p.v)
         IN  IF p.err # Nil THEN [pattern |-> [nil |-> TRUE], err |-> p.err]
             ELSE IF p.k # patternKey
             THEN [pattern |-> [nil |-> TRUE], err |-> ErrorfKey("expected parameter", patternKey)]
             ELSE IF ~c.ok
             THEN [pattern |-> [nil |-> TRUE], err |-> Errorf("error parsing regexp")]
             ELSE [pattern |-> [nil |-> FALSE, re |-> c.re], err |-> Nil]

P2_vals(tag, name) ==
    LET vs == Split(tag, ",")
    IN  IF Len(vs) = 0
        THEN [vals |-> <<>>, err |-> Err("missing validator", name, "", NoArg)]
        ELSE [vals |-> vs, err |-> Nil]

P2_fieldValidate(name, value, v) ==
    LET r == Validate(v, value)
    IN  IF ~r.ok
        THEN Out(FALSE, Err("error validating field", name, r.err.kind, r.err.arg), TRUE, v)
        ELSE Out(TRUE, Nil, TRUE, v)

P2_stringValidators(tag, name, value) ==
    LET vs   == P2_vals(tag, name)
        id   == TrimSpace(vs.vals[1])
        rest == Tail(vs.vals)
        r    == P2_rangeFinder(rest)
        pt   == P2_patternFinder(rest)
    IN  IF vs.err # Nil THEN Out(FALSE, vs.err, FALSE, NoValidator)
        ELSE CASE id = <<"l", "e", "n", "g", "t", "h">> ->
                    IF r.err # Nil THEN Out(FALSE, r.err, FALSE, NoValidator)
                    ELSE P2_fieldValidate(name, value,
                             [kind |-> "LengthRangeValidator", Min |-> r.min, Max |-> r.max])
               [] id = <<"r", "e", "g", "e", "x">> ->
                    IF pt.err # Nil THEN Out(FALSE, pt.err, FALSE, NoValidator)
                    ELSE P2_fieldValidate(name, value,
                             [kind |-> "RegexValidator", Pattern |-> pt.pattern])
               [] id = <<"a", "l", "p", "h", "n", "u", "m">> ->
                    P2_fieldValidate(name, value, [kind |-> "AlphaNumericValidator"])
               [] id = <<"i", "p", "v", "4">> ->
                    P2_fieldValidate(name, value, [kind |-> "IPv4Validator"])
               [] id = <<"i", "p", "v", "6">> ->
                    P2_fieldValidate(name, value, [kind |-> "IPv6Validator"])
               [] id = <<"m", "a", "c">> ->
                    P2_fieldValidate(name, value, [kind |-> "MACAddressValidator"])
               [] id = <<"j", "s", "o", "n">> ->
                    P2_fieldValidate(name, value, [kind |-> "JSONValidator"])
               [] id = <<"x", "m", "l">> ->
                    P2_fieldValidate(name, value, [kind |-> "XMLValidator"])
               [] OTHER -> Out(FALSE, UnknownValidator(name), FALSE, NoValidator)

\* part_002 ValidateStruct, one iteration of the loop over the fields
P2_ValidateStruct_field ==
    /\ impl = "p2" /\ pc = "walk" /\ idx <= Len(rec)
    /\ LET f   == rec[idx]
           out == P2_stringValidators(f.tag, FieldName(idx), f.sval)
       IN  IF f.tagged /\ f.typ = "string"
           THEN /\ attempted' = attempted \cup {idx}
                /\ IF ~out.ok
                   THEN /\ ret' = [ok |-> FALSE, err |-> out.err]
                        /\ pc' = "done"
                        /\ idx' = idx
                   ELSE /\ idx' = idx + 1
                        /\ UNCHANGED <<ret, pc>>
           ELSE /\ idx' = idx + 1
                /\ UNCHANGED <<ret, pc, attempted>>
    /\ UNCHANGED <<impl, rec, lerr, prev>>
    /\ UNCHANGED tagVars /\ UNCHANGED leafVars /\ UNCHANGED valueVars

\* part_002 ValidateStruct, after the last field
P2_ValidateStruct_return ==
    /\ impl = "p2" /\ pc = "walk" /\ idx > Len(rec)
    /\ ret' = [ok |-> TRUE, err |-> Nil]
    /\ pc' = "done"
    /\ UNCHANGED <<impl, rec, idx, lerr, attempted, prev>>
    /\ UNCHANGED tagVars /\ UNCHANGED leafVars /\ UNCHANGED valueVars

(***************************************************************************)
(* The test of tag_test.go: records of the shape of MyStruct, validated by *)
(* each of the three ValidateStruct                                        *)
(***************************************************************************)
T_alphnum  == TagText(<<"a", "l", "p", "h", "n", "u", "m">>, <<>>)
T_alphanum == TagText(N_alphanum, <<>>)

\* MyStruct with its annotations; Must may also carry the spelling of tag.go
MyStruct(number, word, must, mustTag) ==
    <<Field(TRUE, "int", T_rangeOK, number),
      Field(TRUE, "string", T_lengthOK, word),
      Field(TRUE, "string", mustTag, must)>>

TestRecords ==
    {MyStruct(n, w, m, t) : n \in {0, 5, 7}, w \in {S_Pluk, S_ab, S_long},
                            m \in {S_hello6, S_abc, S_empty}, t \in {T_alphnum, T_alphanum}}

InitTest ==
    /\ impl \in {"tag", "p1", "p2"}
    /\ rec \in TestRecords
    /\ idx = 1
    /\ pc = "walk"
    /\ ret = NoReturn
    /\ lerr = Nil
    /\ attempted = {}
    /\ prev = NoReturn
    /\ TagIdle /\ LeafIdle /\ ValueIdle

NextTest ==
    \/ ValidateStruct_field
    \/ ValidateStruct_return
    \/ P1_ValidateStruct_field
    \/ P1_ValidateStruct_return
    \/ P2_ValidateStruct_field
    \/ P2_ValidateStruct_return
    \/ ValidateStruct_again

SpecTest == InitTest /\ [][NextTest]_vars

(***************************************************************************)
(* The leaf validators on their own                                        *)
(***************************************************************************)
LeafBounds == {-1, 0, 3, 4, 6}

IntConfigs ==
    {[kind |-> "IntRangeValidator", Min |-> a, Max |-> b] : a, b \in LeafBounds}
    \cup {[kind |-> "CmpRangeValidator", Min |-> a, Max |-> b] : a, b \in LeafBounds}
    \cup {[kind |-> "NonNegativeIntValidator"], [kind |-> "NonPositiveIntValidator"]}

LeafPatterns ==
    {[nil |-> TRUE], [nil |-> FALSE, re |-> <<"a">>], [nil |-> FALSE, re |-> <<"^", "a", "b", "$">>],
     [nil |-> FALSE, re |-> <<"^", "a">>], [nil |-> FALSE, re |-> <<"b", "$">>]}

StringConfigs ==
    {[kind |-> "MinLengthValidator", Size |-> n] : n \in LeafBounds}
    \cup {[kind |-> "MaxLengthValidator", Size |-> n] : n \in LeafBounds}
    \cup {[kind |-> "LengthRangeValidator", Min |-> a, Max |-> b] : a, b \in LeafBounds}
    \cup {[kind |-> "RegexValidator", Pattern |-> p] : p \in LeafPatterns}
    \cup {[kind |-> k] : k \in {"UrlValidator", "EmailValidator", "NonEmptyStringValidator",
                                "AlphaNumericValidator", "MACAddressValidator", "IpValidator",
                                "IPv4Validator", "IPv6Validator", "XMLValidator", "JSONValidator"}}

\* the most members a composite validator chains
MaxMembers == 2

IntMembers ==
    {[kind |-> "NonNegativeIntValidator"], [kind |-> "NonPositiveIntValidator"],
     [kind |-> "IntRangeValidator", Min |-> 0, Max |-> 6],
     [kind |-> "IntRangeValidator", Min |-> 4, Max |-> 6]}

StringMembers ==
    {[kind |-> "NonEmptyStringValidator"], [kind |-> "AlphaNumericValidator"],
     [kind |-> "MinLengthValidator", Size |-> 3], [kind |-> "MinLengthValidator", Size |-> 0],
     [kind |-> "MaxLengthValidator", Size |-> 4],
     [kind |-> "RegexValidator", Pattern |-> [nil |-> FALSE, re |-> <<"^", "a">>]],
     [kind |-> "RegexValidator", Pattern |-> [nil |-> TRUE]]}

\* CompositeValidator[T] over a list of validators of the same type T
CompositeConfigs ==
    {[kind |-> "CompositeValidator", T |-> "int", Validators |-> vs] :
        vs \in UNION {[1..n -> IntMembers] : n \in 0..MaxMembers}}
    \cup {[kind |-> "CompositeValidator", T |-> "string", Validators |-> vs] :
        vs \in UNION {[1..n -> StringMembers] : n \in 0..MaxMembers}}

InitLeaf ==
    /\ validator \in IntConfigs \cup StringConfigs \cup CompositeConfigs
    /\ input = 0
    /\ result = NoResult
    /\ called = 0
    /\ WalkIdle /\ TagIdle /\ ValueIdle

\* v.Validate(val) on any value of the validator's type, any number of times
Validate_call ==
    /\ validator.kind # "CompositeValidator"
    /\ \E val \in IF validator \in IntConfigs THEN IntValues ELSE StringValues :
          /\ input' = val
          /\ result' = Validate(validator, val)
    /\ UNCHANGED <<validator, called>>
    /\ UNCHANGED walkVars /\ UNCHANGED tagVars /\ UNCHANGED valueVars

\* cv.Validate(val) on a composite validator, any number of times
CompositeValidator_call ==
    /\ validator.kind = "CompositeValidator"
    /\ \E val \in IF validator.T = "int" THEN IntValues ELSE StringValues :
          LET r == CompositeValidator_Validate(validator, val)
          IN  /\ input' = val
              /\ result' = r.res
              /\ called' = r.n
    /\ UNCHANGED validator
    /\ UNCHANGED walkVars /\ UNCHANGED tagVars /\ UNCHANGED valueVars

NextLeaf == Validate_call \/ CompositeValidator_call

SpecLeaf == InitLeaf /\ [][NextLeaf]_vars

(***************************************************************************)
(* ValidatedValue (validator.go): a value behind a validator               *)
(***************************************************************************)
\* the zero value of the type parameter
Zero(T) == IF T = "int" THEN 0 ELSE <<>>

SetRes(st, err) == [st |-> st, err |-> err]

\* slip: the value is stored before the validator is asked
ValidatedValue_Set_storeFirst(V, value, val) ==
    IF V = NoValidator
    THEN [value |-> value, ret |-> SetRes("returned", Errorf("no validator set"))]
    ELSE LET r == Validate(V, val)
         IN  IF r.st = "panicked" THEN [value |-> val, ret |-> SetRes("panicked", Nil)]
             ELSE IF ~r.ok THEN [value |-> val, ret |-> SetRes("returned", r.err)]
             ELSE [value |-> val, ret |-> SetRes("returned", Nil)]

\* (*ValidatedValue).Set on a wrapper with Validator V and stored value:
\* the stored value afterwards and the returned error
ValidatedValue_Set(V, value, val) ==
    IF V = NoValidator
    THEN [value |-> value, ret |-> SetRes("returned", Errorf("no validator set"))]
    ELSE LET r == Validate(V, val)
         IN  IF r.st = "panicked" THEN [value |-> value, ret |-> SetRes("panicked", Nil)]
             ELSE IF ~r.ok THEN [value |-> value, ret |-> SetRes("returned", r.err)]
             ELSE [value |-> val, ret |-> SetRes("returned", Nil)]

\* (*ValidatedValue).Get
ValidatedValue_Get(value) == value

InitValue ==
    /\ vvT \in {"int", "string"}
    /\ vvValidator \in (IF vvT = "int" THEN IntMembers ELSE StringMembers) \cup {NoValidator}
    /\ vvValue = Zero(vvT)
    /\ vvBefore = Zero(vvT)
    /\ setArg = Zero(vvT)
    /\ setRet = NoSet /\ getRet = NoGet /\ accepted = NoneAccepted
    /\ WalkIdle /\ TagIdle /\ LeafIdle

\* v.Set(val) with any value of the wrapper's type
Set_call ==
    /\ \E val \in IF vvT = "int" THEN IntValues ELSE StringValues :
          LET r == ValidatedValue_Set(vvValidator, vvValue, val)
          IN  /\ setArg' = val
              /\ vvBefore' = vvValue
              /\ vvValue' = r.value
              /\ setRet' = r.ret
              /\ accepted' = IF r.ret.st = "returned" /\ r.ret.err = Nil
                              THEN [set |-> TRUE, val |-> val] ELSE accepted
    /\ getRet' = NoGet
    /\ UNCHANGED <<vvT, vvValidator>>
    /\ UNCHANGED walkVars /\ UNCHANGED tagVars /\ UNCHANGED leafVars

\* v.Get()
Get_call ==
    /\ getRet' = [st |-> "returned", val |-> ValidatedValue_Get(vvValue)]
    /\ UNCHANGED <<vvT, vvValidator, vvValue, vvBefore, setArg, setRet, accepted>>
    /\ UNCHANGED walkVars /\ UNCHANGED tagVars /\ UNCHANGED leafVars

NextValue == Set_call \/ Get_call

SpecValue == InitValue /\ [][NextValue]_vars

(***************************************************************************)
(* Properties of the struct walker (Spec)                                  *)
(***************************************************************************)
Supported(f) == f.typ \in {"int", "string"}

\* field i carries the annotation and is an int or a string
Annotated(i) == rec[i].tagged /\ Supported(rec[i])

TaggedUnsupported(i) == rec[i].tagged /\ ~Supported(rec[i])

\* the verdicts the running implementation can reach for field i on its own
Verdicts(i) ==
    IF impl = "tag"
    THEN {FieldVerdict(rec[i].typ, rec[i].tag, FieldName(i), FieldValue(rec[i]))}
    ELSE P1_FieldVerdicts(rec[i].typ, rec[i].tag, FieldName(i), FieldValue(rec[i]))

Fails(i) == \E v \in Verdicts(i) : ~v.ok

FailingFields == {i \in 1..Len(rec) : Annotated(i) /\ Fails(i)}

FirstFailing == CHOOSE i \in FailingFields : \A j \in FailingFields : i <= j

\* C1: the walk is fail-fast. No field declared after a failing annotated
\* field is ever handed to a field validator, and when some annotated field
\* fails the call returns (false, the error of the first failing field).
C1_FailFast ==
    /\ \A j \in attempted : \A i \in FailingFields : j <= i
    /\ (pc = "done" /\ FailingFields # {}) =>
          /\ ret.ok = FALSE
          /\ ret.err \in {v.err : v \in Verdicts(FirstFailing)}

\* two failing fields, and only the first was attempted
C1_Witness ==
    /\ pc = "done" /\ Len(rec) >= 2
    /\ {1, 2} \subseteq FailingFields
    /\ attempted = {1}
    /\ ret.ok = FALSE

\* C2: ValidateStruct returns (true, nil) exactly when every annotated int
\* or string field passes; a field without the annotation is never
\* validated.
C2_PassIffAllPass ==
    /\ \A i \in attempted : rec[i].tagged
    /\ pc = "done" =>
          (ret = [ok |-> TRUE, err |-> Nil]
             <=> \A i \in 1..Len(rec) : Annotated(i) => ~Fails(i))

\* success over a record with a passing annotated field and a field without annotation
C2_Witness ==
    /\ pc = "done" /\ ret.ok
    /\ \E i \in 1..Len(rec) : Annotated(i)
    /\ \E j \in 1..Len(rec) : ~rec[j].tagged /\ j \notin attempted

\* C3 as stated: once the record holds an annotated field whose type is
\* neither int nor string, the call returns (false, error).
C3_UnsupportedIsError ==
    (pc = "done" /\ \E i \in 1..Len(rec) : TaggedUnsupported(i))
        => (ret.ok = FALSE /\ ret.err # Nil)

\* C3 amended: an annotated field whose type is neither int nor string is
\* skipped. The walk moves to the next field without validating it and
\* without returning.
C3_UnsupportedIsSkipped ==
    [][(pc = "walk" /\ idx <= Len(rec) /\ TaggedUnsupported(idx))
          => (pc' = "walk" /\ idx' = idx + 1 /\ ret' = ret /\ attempted' = attempted)]_vars

\* the call succeeded over a record holding an annotated float64 field
C3_Witness ==
    /\ pc = "done" /\ ret = [ok |-> TRUE, err |-> Nil]
    /\ \E i \in 1..Len(rec) : TaggedUnsupported(i) /\ i \notin attempted

\* C4: whenever the call returns ok=false, the error names the failing field.
C4_ErrorNamesField ==
    (pc = "done" /\ ~ret.ok) => ret.err.field = FieldName(FirstFailing)

\* C5: failures come back as values. ok is false exactly when the error is
\* non-nil, and a call that returns ok=true met no error in any field it
\* validated.
C5_NoSwallowedError ==
    pc = "done" =>
        /\ ret.ok <=> ret.err = Nil
        /\ ret.ok => \A i \in attempted : \A v \in Verdicts(i) : v.ok /\ v.err = Nil
        /\ ~ret.ok => \E i \in attempted : ret.err \in {v.err : v \in Verdicts(i)}

\* a parameter error of the dispatcher reached the caller
C5_Witness ==
    /\ pc = "done" /\ ~ret.ok /\ ret.err # Nil
    /\ "expected 2 parameters" \in {ret.err.kind, ret.err.cause}
       \/ "expected n parameter(s)" \in {ret.err.kind, ret.err.cause}

(***************************************************************************)
(* Properties of the leaf validators (SpecLeaf)                            *)
(***************************************************************************)
\* C6: every Validate that returns obeys the contract: ok=true comes with
\* a nil error and ok=false with a non-nil error.
C6_ValidatorContract ==
    result.st = "returned" =>
        /\ result.ok => result.err = Nil
        /\ ~result.ok => result.err # Nil

\* a validator written with named results rejected a value
C6_Witness ==
    /\ validator.kind = "UrlValidator"
    /\ result.st = "returned" /\ ~result.ok /\ result.err # Nil

(***************************************************************************)
(* Properties of directive resolution (SpecTag)                            *)
(***************************************************************************)
\* the names each field validator switches on
Registered(typ) ==
    IF typ = "int" THEN {N_range, N_pos, N_neg}
    ELSE {N_length, N_min, N_max, N_regex, N_alphanum, N_ipv4, N_ipv6, N_mac,
          N_json, N_xml, N_url, N_email, N_nonempty}

\* the directive name of the annotation: its first token, trimmed
DirId == TrimSpace(dname)

\* the directives that take parameters, and the keys each requires
TakesParams(typ) == IF typ = "int" THEN {N_range} ELSE {N_length, N_min, N_max, N_regex}

Required(id) ==
    IF id \in {N_range, N_length} THEN {minKey, maxKey}
    ELSE IF id \in {N_min, N_max} THEN {sizeKey}
    ELSE {patternKey}

WellFormed(t) == t.form = "kv" /\ TrimSpace(t.key) # <<>> /\ TrimSpace(t.val) # <<>>

\* the annotation's keys are exactly the required ones, each written once
KeysExact(id, ps) ==
    /\ \A i \in 1..Len(ps) : WellFormed(ps[i])
    /\ Len(ps) = Cardinality(Required(id))
    /\ {TrimSpace(ps[i].key) : i \in 1..Len(ps)} = Required(id)

NumericText(s) ==
    LET body == IF s # <<>> /\ Head(s) \in {"+", "-"} THEN Tail(s) ELSE s
    IN  body # <<>> /\ \A i \in 1..Len(body) : body[i] \in Digit

\* the value of token t converts to the type its key stands for
Converts(t) ==
    IF TrimSpace(t.key) = patternKey
    THEN \A i \in 1..Len(t.val) : t.val[i] \notin RegexBad
    ELSE NumericText(TrimSpace(t.val))

UnknownDirective(e) ==
    \/ e.kind = "unknown validator"
    \/ e.kind = "error validating field" /\ e.cause = "unknown validator"

\* C7: a directive that takes parameters resolves only when the keys of the
\* annotation are exactly its required keys; otherwise resolution fails with
\* an error and no validator is built and run.
C7_ExactKeySet ==
    (tphase = "resolved" /\ DirId \in TakesParams(ttyp) /\ ~KeysExact(DirId, dparams))
        => (~tout.ok /\ tout.err # Nil /\ ~tout.ran)

\* min and max, each once, with integer values
BoundsPair(ps) ==
    /\ Len(ps) = 2
    /\ \A i \in 1..2 : WellFormed(ps[i]) /\ NumericText(TrimSpace(ps[i].val))
    /\ {TrimSpace(ps[i].key) : i \in 1..2} = {minKey, maxKey}

RangeLike == (ttyp = "int" /\ DirId = N_range) \/ (ttyp = "string" /\ DirId = N_length)

\* C8: for range and for the string length range, writing max before min
\* gives the same outcome as writing min before max.
C8_OrderIrrelevant ==
    (tphase = "resolved" /\ tprev # NoOut /\ RangeLike /\ BoundsPair(dparams))
        => (tout.ok = tprev.ok /\ tout.err = tprev.err)

\* max was written first, and the value passed as it did with min first
C8_Witness ==
    /\ tphase = "resolved" /\ tprev # NoOut /\ RangeLike /\ BoundsPair(dparams)
    /\ TrimSpace(dparams[1].key) = maxKey
    /\ tout.ok /\ tprev.ok

\* C9: when the keys are the required ones but a value does not convert,
\* resolution fails with an error and the validator is never run.
C9_ConversionFailure ==
    (/\ tphase = "resolved" /\ DirId \in TakesParams(ttyp) /\ KeysExact(DirId, dparams)
     /\ \E i \in 1..Len(dparams) : ~Converts(dparams[i]))
        => (~tout.ok /\ tout.err # Nil /\ ~tout.ran)

\* a pattern that does not compile was rejected before any match was tried
C9_Witness ==
    /\ tphase = "resolved" /\ ttyp = "string" /\ DirId = N_regex
    /\ KeysExact(DirId, dparams) /\ ~Converts(dparams[1])
    /\ ~tout.ok /\ ~tout.ran

\* C10: a name that is not registered for the field's type, whatever it is
\* registered for elsewhere and however it is cased, fails with the
\* unknown-directive error.
C10_ExactLookup ==
    (tphase = "resolved" /\ DirId \notin Registered(ttyp))
        => (~tout.ok /\ UnknownDirective(tout.err) /\ ~tout.ran)

\* Range, capitalised, on an int field whose value is inside the bounds
C10_Witness ==
    /\ tphase = "resolved" /\ ttyp = "int" /\ dname = N_Range
    /\ BoundsPair(dparams) /\ tvalue = 5
    /\ ~tout.ok

\* the names the specification lists for each field type
SpecVocabulary(typ) ==
    IF typ = "int" THEN {N_range, N_nonnegative, N_nonpositive}
    ELSE {N_url, N_email, N_nonemptyWord, N_minlength, N_maxlength, N_lengthrange,
          N_regex, N_alphanumeric, N_mac, N_ip, N_ipv4, N_ipv6, N_xml, N_json}

\* the validator each registered name stands for
ValidatorOf(typ, id) ==
    CASE typ = "int" /\ id = N_range -> "IntRangeValidator"
      [] id = N_pos      -> "NonNegativeIntValidator"
      [] id = N_neg      -> "NonPositiveIntValidator"
      [] id = N_length   -> "LengthRangeValidator"
      [] id = N_min      -> "MinLengthValidator"
      [] id = N_max      -> "MaxLengthValidator"
      [] id = N_regex    -> "RegexValidator"
      [] id = N_alphanum -> "AlphaNumericValidator"
      [] id = N_ipv4     -> "IPv4Validator"
      [] id = N_ipv6     -> "IPv6Validator"
      [] id = N_mac      -> "MACAddressValidator"
      [] id = N_json     -> "JSONValidator"
      [] id = N_xml      -> "XMLValidator"
      [] id = N_url      -> "UrlValidator"
      [] id = N_email    -> "EmailValidator"
      [] id = N_nonempty -> "NonEmptyStringValidator"
      [] OTHER           -> "none"

\* C11 as stated: the accepted names are url, email, nonempty, minlength,
\* maxlength, lengthrange, regex, alphanumeric, mac, ip, ipv4, ipv6, xml, json
\* for strings and range, nonnegative, nonpositive for ints; every other
\* name is rejected as unknown.
C11_SpecVocabulary ==
    tphase = "resolved"
        => (DirId \in SpecVocabulary(ttyp) <=> ~UnknownDirective(tout.err))

\* C11, amended: the accepted names are length, min, max, regex, alphanum,
\* ipv4, ipv6, mac, json, xml, url, email, !empty for strings and range, pos,
\* neg for ints; every other name is rejected as unknown, and in tag.go a
\* validator that runs is the one its name stands for.
C11_CodeVocabulary ==
    tphase = "resolved"
        => /\ DirId \in Registered(ttyp) <=> ~UnknownDirective(tout.err)
           /\ (timpl = "tag" /\ tout.ran) => tout.v.kind = ValidatorOf(ttyp, DirId)

\* pos on an int field ran the non-negative validator, which accepted 5
C11_Witness ==
    /\ tphase = "resolved" /\ timpl = "tag" /\ ttyp = "int" /\ dname = N_pos
    /\ tvalue = 5 /\ tout.ran /\ tout.ok
    /\ tout.v.kind = "NonNegativeIntValidator"

\* the text of token t contains an = after the one that ends its key
ValueHasEquals(t) == t.form = "kv" /\ \E i \in 1..Len(t.val) : t.val[i] = "="

Malformed(e) ==
    \/ e.kind = "malformed key value pair"
    \/ e.kind = "error validating field" /\ e.cause = "malformed key value pair"

\* C12: a token is split on its first = only, so regex with the single token
\* pattern=a=b parses into the key pattern and the value a=b, and the
\* pattern validator is built from that value and run.
C12_FirstEqualsWins ==
    (/\ tphase = "resolved" /\ ttyp = "string" /\ DirId = N_regex
     /\ Len(dparams) = 1 /\ ValueHasEquals(dparams[1])
     /\ TrimSpace(dparams[1].key) = patternKey /\ Converts(dparams[1]))
        => (~Malformed(tout.err) /\ tout.ran /\ tout.v.kind = "RegexValidator")

\* C13: an annotation of a registered directive with a token that is not a
\* well-formed key=value fails with the malformed-parameter error, also when
\* the directive takes no parameters.
C13_MalformedTokenFails ==
    (/\ tphase = "resolved" /\ DirId \in Registered(ttyp)
     /\ \E i \in 1..Len(dparams) : ~WellFormed(dparams[i]))
        => (~tout.ok /\ Malformed(tout.err))

\* C14: an annotation whose directive name is empty after trimming fails, and
\* its error is the empty-directive error, not the unknown-directive error.
C14_EmptyDirective ==
    (tphase = "resolved" /\ DirId = <<>>)
        => (~tout.ok /\ tout.err # Nil /\ ~UnknownDirective(tout.err))

(***************************************************************************)
(* Properties of the range, length, pattern and composite validators       *)
(* (SpecLeaf)                                                              *)
(***************************************************************************)
\* C15: the range validators return ok=true exactly when Min <= v <= Max,
\* both bounds included.
C15_RangeInclusive ==
    (validator.kind \in {"IntRangeValidator", "CmpRangeValidator"} /\ result.st = "returned")
        => (result.ok <=> (validator.Min <= input /\ input <= validator.Max))

\* IntRangeValidator{4, 6} was called with its upper bound and accepted it
C15_Witness ==
    /\ validator = [kind |-> "IntRangeValidator", Min |-> 4, Max |-> 6]
    /\ input = validator.Max
    /\ result.st = "returned" /\ result.ok

\* some bound of the length validator is zero
ZeroBound(v) ==
    IF v.kind = "LengthRangeValidator" THEN v.Min = 0 \/ v.Max = 0 ELSE v.Size = 0

\* the length of s respects the bounds of the length validator v
LengthFits(v, s) ==
    CASE v.kind = "MinLengthValidator" -> Len(s) >= v.Size
      [] v.kind = "MaxLengthValidator" -> Len(s) <= v.Size
      [] v.kind = "LengthRangeValidator" -> v.Min <= Len(s) /\ Len(s) <= v.Max

\* C16: with non-zero bounds the length validators pass exactly when the
\* length respects the bounds, inclusive; with a zero bound they return
\* (false, error) for every input.
C16_LengthBounds ==
    (/\ validator.kind \in {"MinLengthValidator", "MaxLengthValidator", "LengthRangeValidator"}
     /\ result.st = "returned")
        => IF ZeroBound(validator) THEN ~result.ok /\ result.err # Nil
           ELSE result.ok <=> LengthFits(validator, input)

\* MinLengthValidator{0} rejected a three-letter string
C16_Witness ==
    /\ validator = [kind |-> "MinLengthValidator", Size |-> 0]
    /\ result.st = "returned" /\ ~result.ok /\ result.err # Nil
    /\ input = S_abc

\* member v returns and does not accept val
Rejects(v, val) == LET r == Validate(v, val) IN r.st = "returned" /\ ~r.ok

\* the members of the composite validator that reject the input
Rejecting == {i \in 1..Len(validator.Validators) : Rejects(validator.Validators[i], input)}

FirstRejecting == CHOOSE i \in Rejecting : \A j \in Rejecting : i <= j

\* C17: a composite call that returns gives (true, nil) exactly when every
\* member accepts, having run them all; otherwise it gives false with the
\* error of the first rejecting member in list order, unchanged, and no member
\* after that one is run.
C17_CompositeFailFast ==
    (validator.kind = "CompositeValidator" /\ result.st = "returned")
        => IF Rejecting = {}
           THEN result.ok /\ result.err = Nil /\ called = Len(validator.Validators)
           ELSE /\ ~result.ok
                /\ result.err = Validate(validator.Validators[FirstRejecting], input).err
                /\ called = FirstRejecting

\* [NonEmpty, MinLength{3}] on "": the NonEmpty error, MinLength not run
C17_Witness ==
    /\ validator.kind = "CompositeValidator"
    /\ validator.Validators = <<[kind |-> "NonEmptyStringValidator"],
                                [kind |-> "MinLengthValidator", Size |-> 3]>>
    /\ result.st = "returned" /\ ~result.ok
    /\ input = S_empty
    /\ result.err = Errorf("string is empty")
    /\ called = 1

\* [NonEmpty, MinLength{3}] on "ab": the MinLength error, after NonEmpty ran
C17_WitnessSecond ==
    /\ validator.kind = "CompositeValidator"
    /\ validator.Validators = <<[kind |-> "NonEmptyStringValidator"],
                                [kind |-> "MinLengthValidator", Size |-> 3]>>
    /\ result.st = "returned" /\ ~result.ok
    /\ input = S_ab
    /\ result.err = Errorf("value exeeds minimum length")
    /\ called = 2

\* the pattern re without its anchors, and which anchors it has
AnchoredStart(re) == re # <<>> /\ Head(re) = "^"
AnchoredEnd(re)   == re # <<>> /\ re[Len(re)] = "$"
Literal(re) == SubSeq(re, IF AnchoredStart(re) THEN 2 ELSE 1,
                          IF AnchoredEnd(re) THEN Len(re) - 1 ELSE Len(re))

HasPrefix(s, t) == Len(t) <= Len(s) /\ SubSeq(s, 1, Len(t)) = t
HasSuffix(s, t) == Len(t) <= Len(s) /\ SubSeq(s, Len(s) - Len(t) + 1, Len(s)) = t
Contains(s, t)  == \E i \in 0..(Len(s) - Len(t)) : SubSeq(s, i + 1, i + Len(t)) = t

\* C18 as stated: the pattern validator accepts a string exactly when the
\* whole string matches the pattern, so a pattern without anchors rejects a
\* string that only contains a match.
C18_FullMatch ==
    (validator.kind = "RegexValidator" /\ result.st = "returned")
        => (result.ok <=> input = Literal(validator.Pattern.re))

\* C18, amended: the pattern validator accepts a string exactly when the
\* pattern matches somewhere in it; only a leading ^ ties the match to the
\* start of the string and only a trailing $ ties it to the end.
C18_MatchAnywhere ==
    (validator.kind = "RegexValidator" /\ result.st = "returned")
        => LET re == validator.Pattern.re
           IN  result.ok <=>
                 CASE AnchoredStart(re) /\ AnchoredEnd(re) -> input = Literal(re)
                   [] AnchoredStart(re) /\ ~AnchoredEnd(re) -> HasPrefix(input, Literal(re))
                   [] ~AnchoredStart(re) /\ AnchoredEnd(re) -> HasSuffix(input, Literal(re))
                   [] OTHER -> Contains(input, Literal(re))

\* the pattern a, without anchors, accepted "ab"
C18_Witness ==
    /\ validator = [kind |-> "RegexValidator", Pattern |-> [nil |-> FALSE, re |-> <<"a">>]]
    /\ result.st = "returned" /\ result.ok
    /\ input = S_ab

(***************************************************************************)
(* Properties of repeated and end-to-end validation (Spec)                 *)
(***************************************************************************)
\* C19: a second ValidateStruct call on the same record with the same
\* annotations returns what the first call returned: the same ok and the
\* same error.
C19_SameOutcomeTwice ==
    (pc = "done" /\ prev # NoReturn) => ret = prev

NumberField(v) == Field(TRUE, "int", T_rangeOK, v)

\* C20 as stated: Number annotated range,min=4,max=6 and Word annotated
\* lengthrange,min=4,max=6 holding "Pluk" validate when Number is 5, and fail
\* with an error naming Number when Number is 7.
C20_EndToEndLengthrange ==
    LET word == Field(TRUE, "string", T_lengthrange, S_Pluk)
    IN  pc = "done" =>
          /\ rec = <<NumberField(5), word>> => (ret.ok /\ ret.err = Nil)
          /\ rec = <<NumberField(7), word>> => (~ret.ok /\ ret.err.field = "Number")

\* C20, amended: Number annotated range,min=4,max=6 and Word annotated
\* length,min=4,max=6 holding "Pluk" validate when Number is 5, and fail
\* with an error naming Number when Number is 7.
C20_EndToEndLength ==
    LET word == Field(TRUE, "string", T_lengthOK, S_Pluk)
    IN  pc = "done" =>
          /\ rec = <<NumberField(5), word>> => (ret.ok /\ ret.err = Nil)
          /\ rec = <<NumberField(7), word>> => (~ret.ok /\ ret.err.field = "Number")

\* the record with Number = 7 was rejected with an error naming Number
C20_Witness ==
    /\ pc = "done"
    /\ rec = <<NumberField(7), Field(TRUE, "string", T_lengthOK, S_Pluk)>>
    /\ ~ret.ok /\ ret.err.field = "Number"

\* the record with Number = 5 was accepted
C20_WitnessPass ==
    /\ pc = "done"
    /\ rec = <<NumberField(5), Field(TRUE, "string", T_lengthOK, S_Pluk)>>
    /\ ret.ok /\ attempted = {1, 2}

(***************************************************************************)
(* Properties of ValidatedValue (SpecValue)                                *)
(***************************************************************************)
\* what Get must return: the argument of the most recent Set that returned
\* nil, or the zero value when no Set has returned nil
LastAccepted == IF accepted.set THEN accepted.val ELSE Zero(vvT)

C21_WitnessNoValidator ==
    /\ vvValidator = NoValidator
    /\ setRet = SetRes("returned", Errorf("no validator set"))
    /\ getRet.st = "returned" /\ getRet.val = Zero(vvT)

(***************************************************************************)
(* Properties of the repository's own test record (SpecTest)               *)
(***************************************************************************)
\* MyStruct{Word: "Pluk", Must: "hello6#"}: Number is left at 0
TestRecord == MyStruct(0, S_Pluk, S_hello6, T_alphnum)

\* C22: ValidateStruct returns ok=true for the record of TestValidateStruct,
\* MyStruct{Word: "Pluk", Must: "hello6#"} with Number at its zero value.
C22_TestRecordPasses ==
    (pc = "done" /\ rec = TestRecord) => (ret.ok /\ ret.err = Nil)

\* where each ValidateStruct stops on the test record
C22_WhereItFails ==
    (pc = "done" /\ rec = TestRecord) =>
        /\ ~ret.ok
        /\ impl \in {"tag", "p1"} => ret.err.field = "Number" /\ attempted = {1}
        /\ impl = "p2" => ret.err.field = "Must" /\ attempted = {2, 3}

(***************************************************************************)
(* Properties of the string length directives (SpecTag)                    *)
(***************************************************************************)
\* the annotation is name,size=N with N a non-zero integer
SizeOnly ==
    /\ Len(dparams) = 1 /\ WellFormed(dparams[1])
    /\ TrimSpace(dparams[1].key) = sizeKey
    /\ NumericText(TrimSpace(dparams[1].val))
    /\ Atoi(TrimSpace(dparams[1].val)).val # 0

SizeN == Atoi(TrimSpace(dparams[1].val)).val

\* C23: on a string field, max,size=N passes exactly the strings of length
\* at most N and min,size=N exactly those of length at least N, for every
\* non-zero N.
C23_MaxIsMaxLength ==
    (tphase = "resolved" /\ ttyp = "string" /\ DirId \in {N_min, N_max} /\ SizeOnly)
        => (tout.ok <=> IF DirId = N_max THEN Len(tvalue) <= SizeN
                        ELSE Len(tvalue) >= SizeN)

\* the same statement for the dispatcher of tag.go alone
C23_MaxIsMaxLength_tag ==
    timpl = "tag" => C23_MaxIsMaxLength

====
